---------------------------- MODULE Spec2Model ----------------------------
(***************************************************************************)
(* Model of dehydrated-dreamhost-hook: the DNS-01 challenge hook (hook.py) *)
(* and the certificate deployment script (deploy.py).                      *)
(*                                                                         *)
(* One behaviour is one process invocation: run_hook dispatches on the     *)
(* operation name and the chosen operation runs to completion, to a fatal  *)
(* exit (sys.exit) or to an uncaught exception.                            *)
(***************************************************************************)
EXTENDS Naturals, Sequences, FiniteSets, TLC

VARIABLES
    op,             \* args[0] of run_hook
    pc,             \* position of the single thread of control
    \* ---- deploy.py ----
    fs,             \* the filesystem: path -> file or Absent
    di,             \* index into config['domains'].keys()       (run_deployment)
    li,             \* index into the domain's location list     (deploy_domain)
    ti,             \* index into location.keys()                (deploy_domain)
    deployed,       \* deploy_domain's local `deployed`
    saw_new_deployments,
    stat,           \* deploy_file's local `stat`
    deploy_success, \* deploy_domain's local `deploy_success`
    ai,             \* index into config['post_actions']
    actionLog,      \* post-deployment actions attempted so far, with their outcome
    fs0,            \* history: the filesystem when run_deployment started
    domFs,          \* history: the filesystem when the current deploy_domain call started
    callFs,         \* history: the filesystem when the current deploy_file call started
    \* ---- hook.py ----
    HOST_API_PARAMS,\* the process-wide parameter dictionary
    store,          \* the provider's record store (list order of dns-list_records)
    store0,         \* history: the record store when the invocation started
    token,          \* args[2] of deploy_challenge
    exists,         \* local `exists` of deploy_challenge / clean_challenge
    value,          \* local `value` of deploy_challenge / clean_challenge
    DNS_COUNTER,    \* the global hit counter
    events          \* history: provider requests, sleeps and polls, in order

deployVars == <<fs, di, li, ti, deployed, saw_new_deployments, stat, deploy_success,
                ai, actionLog, fs0, domFs, callFs>>
hookVars   == <<HOST_API_PARAMS, store, store0, token, exists, value, DNS_COUNTER, events>>
vars       == <<op, pc, deployVars, hookVars>>

None == "None"

(***************************************************************************)
(* Bounds of the model.                                                    *)
(***************************************************************************)
MaxMtime == 2       \* modification times of the initial files are 1..MaxMtime
MaxPolls == 5       \* propagation polls explored per invocation
MaxStore == 2       \* records initially held by the provider

(***************************************************************************)
(* deploy.py: files and configuration                                      *)
(***************************************************************************)
Absent == [kind |-> "absent"]

\* A regular file: what os.stat and a read of the file can tell apart.
File(c, m, u, g, p) ==
    [kind |-> "file", content |-> c, mtime |-> m, uid |-> u, gid |-> g, mode |-> p]

\* File contents are byte strings; st_size is their length.
Contents == {<<0>>, <<1>>, <<0, 0>>}
Size(f) == Len(f.content)

\* The process deploying the files (dehydrated runs the hook as root).
ProcUid == "root"
ProcGid == "root"
\* The time at which files written by this run are stamped.
Now == MaxMtime + 1

\* LETSENCRYPT_ROOT.format(domain=domain, pem=file_type)
LETSENCRYPT_ROOT(domain, pem) ==
    "/etc/dehydrated/certs/" \o domain \o "/" \o pem \o ".pem"

CONFIG_FILE == "~/.config/dehydrated/deploy.conf"

\* f'{old_file}.bak'
BakOf(old_file) == old_file \o ".bak"

\* The parsed deployment config: domains in key order, each a list of
\* locations, each location its (file type, destination) items in key order.
Loc(t, p) == [type |-> t, path |-> p]
Config ==
    [ domains |-> <<"a.example", "b.example">>,
      locations |->
        [ d \in {"a.example", "b.example"} |->
            IF d = "a.example"
            THEN << <<Loc("cert", "/srv/a/cert.pem"), Loc("privkey", "/srv/a/key.pem")>> >>
            ELSE << <<Loc("cert", "/srv/b1/cert.pem")>>,
                    <<Loc("cert", "/srv/b2/cert.pem")>> >> ],
      post_actions |-> <<"reload-web", "reload-mail">> ]

Triples ==
    { <<d, l, t>> \in (1..Len(Config.domains)) \X (1..2) \X (1..2) :
        /\ l <= Len(Config.locations[Config.domains[d]])
        /\ t <= Len(Config.locations[Config.domains[d]][l]) }

DomainAt(d)      == Config.domains[d]
ItemAt(d, l, t)  == Config.locations[DomainAt(d)][l][t]
OldFileAt(d, l, t) == ItemAt(d, l, t).path
NewFileAt(d, l, t) == LETSENCRYPT_ROOT(DomainAt(d), ItemAt(d, l, t).type)

OldPaths == { OldFileAt(x[1], x[2], x[3]) : x \in Triples }
NewPaths == { NewFileAt(x[1], x[2], x[3]) : x \in Triples }
BakPaths == { BakOf(p) : p \in OldPaths }
Paths    == OldPaths \cup NewPaths \cup BakPaths \cup {CONFIG_FILE}

\* Owner, group and permission bits of the files deployed before this run.
OldMeta(p) ==
    IF p = "/srv/a/cert.pem"  THEN [uid |-> "www",  gid |-> "ssl",  mode |-> "0644"]
    ELSE IF p = "/srv/a/key.pem" THEN [uid |-> "www",  gid |-> "ssl",  mode |-> "0640"]
    ELSE IF p = "/srv/b1/cert.pem" THEN [uid |-> "mail", gid |-> "mail", mode |-> "0444"]
    ELSE [uid |-> "root", gid |-> "ssl", mode |-> "0440"]

\* os.path.exists(path)
Exists(path) == fs[path] # Absent


(***************************************************************************)
(* deploy.py: deploy_file                                                  *)
(***************************************************************************)
\* filecmp._sig: (file type, size, modification time)
Sig(f) == <<"S_IFREG", Size(f), f.mtime>>

\* Mutant of filecmp: only the stat signatures are compared.
filecmp_signature_only(f1, f2) == Sig(f1) = Sig(f2)

\* filecmp.cmp(f1, f2) with its default shallow=True: equal signatures are
\* taken as equal files; otherwise sizes, then contents, are compared.
filecmp(f1, f2) ==
    IF Sig(f1) = Sig(f2) THEN TRUE
    ELSE IF Size(f1) # Size(f2) THEN FALSE
    ELSE f1.content = f2.content

\* The file the loops of run_deployment / deploy_domain are at.
old_file == OldFileAt(di, li, ti)
new_file == LETSENCRYPT_ROOT(DomainAt(di), ItemAt(di, li, ti).type)

\* Mutant of Rename: the existing file is removed, not kept under the new name.
Rename_discard(f, src, dst) == [f EXCEPT ![src] = Absent]

\* os.rename(src, dst): dst is replaced by src, src is gone
Rename(f, src, dst) == [f EXCEPT ![dst] = f[src], ![src] = Absent]

\* shutil.copy(src, dst): the data and the mode bits of src; a destination
\* that does not exist yet is created owned by the process.
Copy(f, src, dst) ==
    [f EXCEPT ![dst] =
        File(f[src].content, Now,
             IF f[dst] = Absent THEN ProcUid ELSE f[dst].uid,
             IF f[dst] = Absent THEN ProcGid ELSE f[dst].gid,
             f[src].mode)]

\* os.chown(path, uid, gid)
Chown(f, path, uid, gid) == [f EXCEPT ![path].uid = uid, ![path].gid = gid]

\* os.chmod(path, mode)
Chmod(f, path, mode) == [f EXCEPT ![path].mode = mode]

\* CONFIG_FILE is present (parse_config's check)
ConfigFound == Exists(CONFIG_FILE)

\* Mutant of ShouldRunActions: the actions run whatever was deployed.
ShouldRunActions_always == TRUE

\* Mutant of ShouldRunActions: only the last domain's result is looked at.
ShouldRunActions_last_domain == deployed

\* run_deployment's test before the post-deployment actions
ShouldRunActions == saw_new_deployments

\* the next post-deployment action of the for loop
NextAction == Config.post_actions[ai]

\* What subprocess.call(action, shell=True) can do: return an exit status,
\* or fail to launch (OSError).
ActionOutcomes == {"status 0", "status 1", "OSError"}

unchangedDeployLoop == <<di, li, ti, deployed, saw_new_deployments>>
unchangedHistory    == <<fs0, domFs, callFs>>

\* run_deployment, lines 109-115: parse_config, then the domain loop starts
RunDeployment ==
    /\ pc = "run_deployment"
    /\ \/ /\ ~ConfigFound
          /\ pc' = "fatal"
          /\ UNCHANGED <<di, saw_new_deployments>>
       \/ /\ ConfigFound
          /\ saw_new_deployments' = FALSE
          /\ di' = 1
          /\ pc' = "domain_loop"
    /\ fs0' = fs
    /\ UNCHANGED <<op, fs, li, ti, deployed, stat, deploy_success, ai, actionLog,
                   domFs, callFs, hookVars>>

\* run_deployment line 118 and deploy_domain lines 74-81: the next domain
DomainLoop ==
    /\ pc = "domain_loop"
    /\ \/ /\ di <= Len(Config.domains)
          /\ deployed' = FALSE
          /\ li' = 1
          /\ ti' = 1
          /\ domFs' = fs
          /\ pc' = "check_new"
       \/ /\ di > Len(Config.domains)
          /\ pc' = "post_actions"
          /\ UNCHANGED <<deployed, li, ti, domFs>>
    /\ UNCHANGED <<op, fs, di, saw_new_deployments, stat, deploy_success, ai, actionLog,
                   fs0, callFs, hookVars>>

\* deploy_domain lines 84-88
CheckNew ==
    /\ pc = "check_new"
    /\ \/ /\ ~Exists(new_file)
          /\ pc' = "fatal"
       \/ /\ Exists(new_file)
          /\ pc' = "check_old"
    /\ UNCHANGED <<op, deployVars, hookVars>>

\* Mutant of CheckOld: deploy_file is called without the destination check.
CheckOld_unchecked ==
    /\ pc = "check_old"
    /\ pc' = "deploy_file"
    /\ callFs' = fs
    /\ UNCHANGED <<op, fs, unchangedDeployLoop, stat, deploy_success, ai, actionLog,
                   fs0, domFs, hookVars>>

\* deploy_domain lines 91-98: the destination is checked, deploy_file is called
CheckOld ==
    /\ pc = "check_old"
    /\ \/ /\ ~Exists(old_file)
          /\ pc' = "fatal"
          /\ UNCHANGED callFs
       \/ /\ Exists(old_file)
          /\ pc' = "deploy_file"
          /\ callFs' = fs
    /\ UNCHANGED <<op, fs, unchangedDeployLoop, stat, deploy_success, ai, actionLog,
                   fs0, domFs, hookVars>>

\* deploy_file lines 49-54
DeployFileCmp ==
    /\ pc = "deploy_file"
    /\ \/ /\ filecmp(fs[old_file], fs[new_file])
          /\ deploy_success' = FALSE
          /\ pc' = "deploy_returned"
          /\ UNCHANGED stat
       \/ /\ ~filecmp(fs[old_file], fs[new_file])
          /\ stat' = [st_uid |-> fs[old_file].uid, st_gid |-> fs[old_file].gid,
                      st_mode |-> fs[old_file].mode]
          /\ pc' = "rename"
          /\ UNCHANGED deploy_success
    /\ UNCHANGED <<op, fs, unchangedDeployLoop, ai, actionLog, unchangedHistory, hookVars>>

\* deploy_file line 57
DeployFileRename ==
    /\ pc = "rename"
    /\ fs' = Rename(fs, old_file, BakOf(old_file))
    /\ pc' = "copy"
    /\ UNCHANGED <<op, unchangedDeployLoop, stat, deploy_success, ai, actionLog,
                   unchangedHistory, hookVars>>

\* deploy_file line 60
DeployFileCopy ==
    /\ pc = "copy"
    /\ fs' = Copy(fs, new_file, old_file)
    /\ pc' = "chown"
    /\ UNCHANGED <<op, unchangedDeployLoop, stat, deploy_success, ai, actionLog,
                   unchangedHistory, hookVars>>

\* deploy_file line 63
DeployFileChown ==
    /\ pc = "chown"
    /\ fs' = Chown(fs, old_file, stat.st_uid, stat.st_gid)
    /\ pc' = "chmod"
    /\ UNCHANGED <<op, unchangedDeployLoop, stat, deploy_success, ai, actionLog,
                   unchangedHistory, hookVars>>

\* deploy_file lines 66-69
DeployFileChmod ==
    /\ pc = "chmod"
    /\ fs' = Chmod(fs, old_file, stat.st_mode)
    /\ deploy_success' = TRUE
    /\ pc' = "deploy_returned"
    /\ UNCHANGED <<op, unchangedDeployLoop, stat, ai, actionLog, fs0, domFs, callFs,
                   hookVars>>

\* An os / shutil call of deploy_file raises OSError (lines 57-66): nothing
\* catches it and the process ends.
DeployFileOSError ==
    /\ pc \in {"rename", "copy", "chown", "chmod"}
    /\ pc' = "crashed"
    /\ UNCHANGED <<op, deployVars, hookVars>>

\* deploy_domain lines 101-104 and run_deployment lines 121-124: the status
\* is recorded and the loops advance
SetDeployStatus ==
    /\ pc = "deploy_returned"
    /\ LET dep == deployed \/ deploy_success
           locs == Config.locations[DomainAt(di)]
       IN  \/ /\ ti < Len(locs[li])
              /\ ti' = ti + 1
              /\ deployed' = dep
              /\ pc' = "check_new"
              /\ UNCHANGED <<di, li, saw_new_deployments>>
           \/ /\ ti = Len(locs[li])
              /\ li < Len(locs)
              /\ li' = li + 1
              /\ ti' = 1
              /\ deployed' = dep
              /\ pc' = "check_new"
              /\ UNCHANGED <<di, saw_new_deployments>>
           \/ /\ ti = Len(locs[li])
              /\ li = Len(locs)
              /\ deployed' = dep
              /\ saw_new_deployments' = (saw_new_deployments \/ dep)
              /\ di' = di + 1
              /\ pc' = "domain_loop"
              /\ UNCHANGED <<li, ti>>
    /\ UNCHANGED <<op, fs, stat, deploy_success, ai, actionLog, unchangedHistory, hookVars>>

\* run_deployment lines 127-130
PostActions ==
    /\ pc = "post_actions"
    /\ \/ /\ ShouldRunActions
          /\ ai' = 1
          /\ pc' = "action"
       \/ /\ ~ShouldRunActions
          /\ pc' = "done"
          /\ UNCHANGED ai
    /\ UNCHANGED <<op, fs, unchangedDeployLoop, stat, deploy_success, actionLog,
                   unchangedHistory, hookVars>>

\* Mutant of AttemptAction: the OSError of a failed launch is not caught.
AttemptAction_uncaught(outcome) ==
    /\ actionLog' = Append(actionLog, [action |-> NextAction, outcome |-> outcome])
    /\ ai' = ai + 1
    /\ pc' = IF outcome = "OSError" THEN "crashed" ELSE "action"

\* The attempt of one action, lines 133-143: an exit status or an OSError
AttemptAction(outcome) ==
    /\ actionLog' = Append(actionLog, [action |-> NextAction, outcome |-> outcome])
    /\ ai' = ai + 1
    /\ pc' = "action"

\* run_deployment lines 132-145
RunAction ==
    /\ pc = "action"
    /\ \/ /\ ai <= Len(Config.post_actions)
          /\ \E outcome \in ActionOutcomes : AttemptAction(outcome)
       \/ /\ ai > Len(Config.post_actions)
          /\ pc' = "done"
          /\ UNCHANGED <<ai, actionLog>>
    /\ UNCHANGED <<op, fs, unchangedDeployLoop, stat, deploy_success, unchangedHistory,
                   hookVars>>

NextDeploy ==
    \/ RunDeployment \/ DomainLoop \/ CheckNew \/ CheckOld
    \/ DeployFileCmp \/ DeployFileRename \/ DeployFileCopy \/ DeployFileChown
    \/ DeployFileChmod \/ DeployFileOSError \/ SetDeployStatus
    \/ PostActions \/ RunAction

(***************************************************************************)
(* The files an invocation can find                                        *)
(***************************************************************************)
\* a newly issued file, written by the issuance client
NewChoices ==
    {Absent} \cup { File(c, m, ProcUid, ProcGid, "0600") : c \in Contents, m \in 1..MaxMtime }

\* a file deployed by an earlier run
OldFile(p) == File(<<0>>, 1, OldMeta(p).uid, OldMeta(p).gid, OldMeta(p).mode)

\* a backup left by an earlier run
FirstOld == OldFileAt(1, 1, 1)
OldBak == File(<<1>>, 1, OldMeta(FirstOld).uid, OldMeta(FirstOld).gid, OldMeta(FirstOld).mode)

TheConfig == File(<<0>>, 1, ProcUid, ProcGid, "0600")

InitialFs(news, olds, cfg) ==
    [ p \in Paths |->
        IF p = CONFIG_FILE THEN (IF cfg THEN TheConfig ELSE Absent)
        ELSE IF p \in NewPaths THEN news[p]
        ELSE IF p \in OldPaths THEN (IF p \in olds THEN OldFile(p) ELSE Absent)
        ELSE IF p = BakOf(FirstOld) THEN OldBak
        ELSE Absent ]

\* the filesystem of an invocation that deploys nothing
QuietFs == InitialFs([p \in NewPaths |-> Absent], OldPaths, TRUE)

InitFs ==
    { InitialFs(news, olds, TRUE) : news \in [NewPaths -> NewChoices], olds \in SUBSET OldPaths }
    \cup { InitialFs([p \in NewPaths |-> Absent], OldPaths, FALSE) }

InitDeployVars(f) ==
    /\ fs = f
    /\ di = 0 /\ li = 0 /\ ti = 0 /\ ai = 0
    /\ deployed = FALSE
    /\ saw_new_deployments = FALSE
    /\ stat = None
    /\ deploy_success = FALSE
    /\ actionLog = <<>>
    /\ fs0 = f /\ domFs = f /\ callFs = f

(***************************************************************************)
(* hook.py: the provider, the resolver and the challenge operations        *)
(***************************************************************************)
DNS_PREFIX == "_acme-challenge"

\* args[0] of deploy_challenge / clean_challenge
Domain == "example.com"

\* '{0}.{1}'.format(DNS_PREFIX, domain)
record == DNS_PREFIX \o "." \o Domain

\* the challenge tokens (TXT values) of the model
Values == {"tokenA", "tokenB"}

Rec(r, v) == [record |-> r, value |-> v]

\* the records the provider can hold before the invocation
KnownRecords == { Rec(record, v) : v \in Values } \cup { Rec("www." \o Domain, "v=spf1") }

\* HOST_API_PARAMS as the module is loaded, lines 40-43
InitialParams ==
    [key |-> "HOST_API_KEY", format |-> "json",
     cmd |-> None, record |-> None, type |-> None, value |-> None]

\* What the provider does with a request it executes: records are kept in
\* list order, an add of a record it already holds and a remove of one it
\* does not hold are answered with an error and change nothing.
Provider(st, req) ==
    IF req.cmd = "dns-add_record"
    THEN IF \E i \in 1..Len(st) : st[i] = Rec(req.record, req.value)
         THEN st ELSE Append(st, Rec(req.record, req.value))
    ELSE IF req.cmd = "dns-remove_record"
    THEN SelectSeq(st, LAMBDA r : r # Rec(req.record, req.value))
    ELSE st

\* Mutant of record_exists: the name of the listed item is not compared.
record_exists_any_name(dns_list, rec) ==
    IF Len(dns_list) > 0 THEN <<TRUE, dns_list[1].value>> ELSE <<FALSE, None>>

\* record_exists lines 88-94: the first listed item of that name
record_exists(dns_list, rec) ==
    IF \E i \in 1..Len(dns_list) : dns_list[i].record = rec
    THEN LET i == CHOOSE j \in 1..Len(dns_list) :
                    /\ dns_list[j].record = rec
                    /\ \A k \in 1..(j - 1) : dns_list[k].record # rec
         IN  <<TRUE, dns_list[i].value>>
    ELSE <<FALSE, None>>

\* Mutant of remove_params: the value found by the existence check is not set.
remove_params_no_value(p, rec, val) ==
    [p EXCEPT !.cmd = "dns-remove_record", !.record = rec, !.type = "TXT"]

\* Mutant of add_params: the value is not set, the shared dictionary keeps
\* the one the request before left in it.
add_params_no_value(p, rec, val) ==
    [p EXCEPT !.cmd = "dns-add_record", !.record = rec, !.type = "TXT"]

\* the parameters each operation puts into the shared dictionary
remove_params(p, rec, val) ==
    [p EXCEPT !.cmd = "dns-remove_record", !.record = rec, !.type = "TXT", !.value = val]
add_params(p, rec, val) ==
    [p EXCEPT !.cmd = "dns-add_record", !.record = rec, !.type = "TXT", !.value = val]
exist_params(p) ==
    [p EXCEPT !.cmd = "dns-list_records"]

Call(req, outcome) == [kind |-> "call", req |-> req, outcome |-> outcome]
Sleep(seconds)     == [kind |-> "sleep", seconds |-> seconds]
Poll(result)       == [kind |-> "poll", result |-> result]

SettleSeconds    == 10
PollSeconds      == 30
CleanWaitSeconds == 30
Threshold        == 3

\* What dns.resolver.query(record, 'TXT') can give: a DNSException, or an
\* answer holding at least one TXT value.
ResolverAnswers ==
    { [ok |-> FALSE, txt |-> {}] }
    \cup { [ok |-> TRUE, txt |-> s] : s \in (SUBSET Values) \ {{}} }

\* Mutant of has_dns_propagated: a failed query starts the count again.
has_dns_propagated_reset_on_failure(answer, val, counter) ==
    IF ~answer.ok THEN [ret |-> FALSE, counter |-> 0]
    ELSE IF val \in answer.txt
         THEN [ret |-> (counter + 1 = Threshold), counter |-> counter + 1]
         ELSE [ret |-> FALSE, counter |-> counter]

\* Mutant of has_dns_propagated: an answer without the value starts the count again.
has_dns_propagated_reset_on_miss(answer, val, counter) ==
    IF ~answer.ok THEN [ret |-> FALSE, counter |-> counter]
    ELSE IF val \in answer.txt
         THEN [ret |-> (counter + 1 = Threshold), counter |-> counter + 1]
         ELSE [ret |-> FALSE, counter |-> 0]

\* Mutant of has_dns_propagated: every answered query counts as a sighting.
has_dns_propagated_any_answer(answer, val, counter) ==
    IF ~answer.ok THEN [ret |-> FALSE, counter |-> counter]
    ELSE [ret |-> (counter + 1 = Threshold), counter |-> counter + 1]

\* has_dns_propagated lines 104-127: the return value and the new counter
has_dns_propagated(answer, val, counter) ==
    IF ~answer.ok THEN [ret |-> FALSE, counter |-> counter]
    ELSE IF val \in answer.txt
         THEN [ret |-> (counter + 1 = Threshold), counter |-> counter + 1]
         ELSE [ret |-> FALSE, counter |-> counter]

\* how an observer classifies one poll
PollClass(answer, val) ==
    IF ~answer.ok THEN "fail" ELSE IF val \in answer.txt THEN "hit" ELSE "miss"

Operations ==
    {"deploy_challenge", "clean_challenge", "deploy_cert", "unchanged_cert",
     "invalid_challenge", "startup_hook", "exit_hook"}

\* Mutant of RunHook: the table maps startup_hook to clean_challenge.
RunHook_wrong_table ==
    /\ pc = "run_hook"
    /\ \/ /\ op \in {"deploy_challenge", "clean_challenge", "startup_hook"}
          /\ pc' = "record_exists"
       \/ /\ op = "deploy_cert"
          /\ pc' = "run_deployment"
       \/ /\ op \in {"unchanged_cert", "invalid_challenge", "exit_hook"}
          /\ pc' = "done"
       \/ /\ op \notin Operations
          /\ pc' = "crashed"
    /\ UNCHANGED <<op, deployVars, hookVars>>

\* run_hook lines 227-239 (deploy_cert lines 190-200 included)
RunHook ==
    /\ pc = "run_hook"
    /\ \/ /\ op \in {"deploy_challenge", "clean_challenge"}
          /\ pc' = "record_exists"
       \/ /\ op = "deploy_cert"
          /\ pc' = "run_deployment"
       \/ /\ op \in {"unchanged_cert", "invalid_challenge", "startup_hook", "exit_hook"}
          /\ pc' = "done"
       \/ /\ op \notin Operations
          /\ pc' = "crashed"
    /\ UNCHANGED <<op, deployVars, hookVars>>

\* Mutant of AfterRecordExists: deploy_challenge adds without removing.
AfterRecordExists_never_remove(found) ==
    IF op = "deploy_challenge"
    THEN "add_record"
    ELSE (IF found THEN "wait_before_remove" ELSE "done")

\* Mutant of AfterRecordExists: clean_challenge removes without waiting.
AfterRecordExists_no_wait(found) ==
    IF op = "deploy_challenge"
    THEN (IF found THEN "remove_record" ELSE "add_record")
    ELSE (IF found THEN "remove_record" ELSE "done")

\* Mutant of AfterRecordExists: deploy_challenge removes unconditionally.
AfterRecordExists_always_remove(found) ==
    IF op = "deploy_challenge"
    THEN "remove_record"
    ELSE (IF found THEN "wait_before_remove" ELSE "done")

\* where deploy_challenge / clean_challenge go on after record_exists
AfterRecordExists(found) ==
    IF op = "deploy_challenge"
    THEN (IF found THEN "remove_record" ELSE "add_record")
    ELSE (IF found THEN "wait_before_remove" ELSE "done")

\* record_exists lines 78-94, called at line 140 or 175
RecordExistsCall ==
    /\ pc = "record_exists"
    /\ LET req == exist_params(HOST_API_PARAMS)
       IN  /\ HOST_API_PARAMS' = req
           /\ \/ /\ events' = Append(events, Call(req, "ok"))
                 /\ exists' = record_exists(Provider(store, req), record)[1]
                 /\ value' = record_exists(Provider(store, req), record)[2]
                 /\ pc' = AfterRecordExists(exists')
              \/ /\ events' = Append(events, Call(req, "failed"))
                 /\ pc' = "crashed"
                 /\ UNCHANGED <<exists, value>>
    /\ UNCHANGED <<op, deployVars, store, store0, token, DNS_COUNTER>>

\* Mutant of RemoveRecordCall: a failed request is issued again.
RemoveRecordCall_retry ==
    /\ pc = "remove_record"
    /\ LET req == remove_params(HOST_API_PARAMS, record, value)
       IN  /\ HOST_API_PARAMS' = req
           /\ \/ /\ events' = Append(events, Call(req, "ok"))
                 /\ store' = Provider(store, req)
                 /\ pc' = IF op = "deploy_challenge" THEN "settle_removed" ELSE "done"
              \/ /\ events' = Append(events, Call(req, "failed"))
                 /\ store' \in {store, Provider(store, req)}
                 /\ Len(events) < 4
                 /\ pc' = "remove_record"
    /\ UNCHANGED <<op, deployVars, store0, token, exists, value, DNS_COUNTER>>

\* remove_record lines 48-58, called at lines 145-146 or 184-185
RemoveRecordCall ==
    /\ pc = "remove_record"
    /\ LET req == remove_params(HOST_API_PARAMS, record, value)
       IN  /\ HOST_API_PARAMS' = req
           /\ \/ /\ events' = Append(events, Call(req, "ok"))
                 /\ store' = Provider(store, req)
                 /\ pc' = IF op = "deploy_challenge" THEN "settle_removed" ELSE "done"
              \/ /\ events' = Append(events, Call(req, "failed"))
                 /\ store' \in {store, Provider(store, req)}
                 /\ pc' = "crashed"
    /\ UNCHANGED <<op, deployVars, store0, token, exists, value, DNS_COUNTER>>

\* deploy_challenge lines 148-149
SettleAfterRemove ==
    /\ pc = "settle_removed"
    /\ events' = Append(events, Sleep(SettleSeconds))
    /\ pc' = "add_record"
    /\ UNCHANGED <<op, deployVars, HOST_API_PARAMS, store, store0, token, exists, value,
                   DNS_COUNTER>>

\* add_record lines 63-73, called at lines 153-154
AddRecordCall ==
    /\ pc = "add_record"
    /\ LET req == add_params(HOST_API_PARAMS, record, token)
       IN  /\ HOST_API_PARAMS' = req
           /\ \/ /\ events' = Append(events, Call(req, "ok"))
                 /\ store' = Provider(store, req)
                 /\ pc' = "settle_added"
              \/ /\ events' = Append(events, Call(req, "failed"))
                 /\ store' \in {store, Provider(store, req)}
                 /\ pc' = "crashed"
    /\ UNCHANGED <<op, deployVars, store0, token, exists, value, DNS_COUNTER>>

\* deploy_challenge lines 157-158
SettleAfterAdd ==
    /\ pc = "settle_added"
    /\ events' = Append(events, Sleep(SettleSeconds))
    /\ pc' = "poll"
    /\ UNCHANGED <<op, deployVars, HOST_API_PARAMS, store, store0, token, exists, value,
                   DNS_COUNTER>>

Polls == SelectSeq(events, LAMBDA e : e.kind = "poll")

\* one evaluation of the while condition at line 161: has_dns_propagated
PollOnce ==
    /\ pc = "poll"
    /\ Len(Polls) < MaxPolls
    /\ \E answer \in ResolverAnswers :
         LET r == has_dns_propagated(answer, token, DNS_COUNTER)
         IN  /\ DNS_COUNTER' = r.counter
             /\ events' = Append(events, Poll(PollClass(answer, token)))
             /\ pc' = IF r.ret THEN "done" ELSE "poll_sleep"
    /\ UNCHANGED <<op, deployVars, HOST_API_PARAMS, store, store0, token, exists, value>>

\* deploy_challenge lines 162-163
PollSleep ==
    /\ pc = "poll_sleep"
    /\ events' = Append(events, Sleep(PollSeconds))
    /\ pc' = "poll"
    /\ UNCHANGED <<op, deployVars, HOST_API_PARAMS, store, store0, token, exists, value,
                   DNS_COUNTER>>

\* clean_challenge lines 179-180
WaitBeforeRemove ==
    /\ pc = "wait_before_remove"
    /\ events' = Append(events, Sleep(CleanWaitSeconds))
    /\ pc' = "remove_record"
    /\ UNCHANGED <<op, deployVars, HOST_API_PARAMS, store, store0, token, exists, value,
                   DNS_COUNTER>>

NextHook ==
    \/ RunHook \/ RecordExistsCall \/ RemoveRecordCall \/ SettleAfterRemove
    \/ AddRecordCall \/ SettleAfterAdd \/ PollOnce \/ PollSleep \/ WaitBeforeRemove

(***************************************************************************)
(* The specification                                                       *)
(***************************************************************************)
\* the provider's record store before the invocation: no record twice
StoreChoices ==
    { st \in UNION { [1..n -> KnownRecords] : n \in 0..MaxStore } :
        \A i, j \in 1..Len(st) : st[i] = st[j] => i = j }

InitHookVars(st, tok) ==
    /\ HOST_API_PARAMS = InitialParams
    /\ store = st
    /\ store0 = st
    /\ token = tok
    /\ exists = FALSE
    /\ value = None
    /\ DNS_COUNTER = 0
    /\ events = <<>>

Init ==
    /\ pc = "run_hook"
    /\ op \in Operations \cup {"bogus_hook"}
    /\ \/ /\ op = "deploy_cert"
          /\ \E f \in InitFs : InitDeployVars(f)
          /\ InitHookVars(<<>>, None)
       \/ /\ op = "deploy_challenge"
          /\ InitDeployVars(QuietFs)
          /\ \E st \in StoreChoices, tok \in Values : InitHookVars(st, tok)
       \/ /\ op = "clean_challenge"
          /\ InitDeployVars(QuietFs)
          /\ \E st \in StoreChoices : InitHookVars(st, None)
       \/ /\ op \notin {"deploy_cert", "deploy_challenge", "clean_challenge"}
          /\ InitDeployVars(QuietFs)
          /\ InitHookVars(<<>>, None)

Next == NextHook \/ NextDeploy

Spec == Init /\ [][Next]_vars

(***************************************************************************)
(* The poll loop without a bound on its iterations.  The history of polls  *)
(* and sleeps is not kept here, so that the loop can go on for ever in a   *)
(* finite state space.                                                     *)
(***************************************************************************)
\* has_dns_propagated as the while condition at line 161, for one answer
PollWith(answer) ==
    LET r == has_dns_propagated(answer, token, DNS_COUNTER)
    IN  /\ DNS_COUNTER' = r.counter
        /\ pc' = IF r.ret THEN "done" ELSE "poll_sleep"

\* one evaluation of the while condition at line 161
PollUnobserved ==
    /\ pc = "poll"
    /\ \E answer \in ResolverAnswers : PollWith(answer)
    /\ UNCHANGED <<op, deployVars, HOST_API_PARAMS, store, store0, token, exists, value,
                   events>>

\* a poll in which the resolver answers with the expected token
PollConfirming ==
    /\ pc = "poll"
    /\ \E answer \in ResolverAnswers : answer.ok /\ token \in answer.txt /\ PollWith(answer)
    /\ UNCHANGED <<op, deployVars, HOST_API_PARAMS, store, store0, token, exists, value,
                   events>>

\* deploy_challenge lines 162-163
SleepUnobserved ==
    /\ pc = "poll_sleep"
    /\ pc' = "poll"
    /\ UNCHANGED <<op, deployVars, hookVars>>

NextLive ==
    \/ RunHook \/ RecordExistsCall \/ RemoveRecordCall \/ SettleAfterRemove
    \/ AddRecordCall \/ SettleAfterAdd \/ PollUnobserved \/ SleepUnobserved
    \/ WaitBeforeRemove

\* The single thread keeps running (every call and sleep returns), and the
\* resolver answers with the token again and again while it is asked.
LiveSpec ==
    /\ Init
    /\ [][NextLive]_vars
    /\ WF_vars(NextLive)
    /\ SF_vars(PollConfirming)

(***************************************************************************)
(* Properties                                                              *)
(***************************************************************************)
Ended == pc \in {"done", "fatal", "crashed"}

\* the provider requests of the invocation, in order
Calls == SelectSeq(events, LAMBDA e : e.kind = "call")

IsList(c)   == c.req.cmd = "dns-list_records"
IsRemove(c) == c.req.cmd = "dns-remove_record"
IsAdd(c)    == c.req.cmd = "dns-add_record"

\* the store held a record of the challenge name when the invocation started
HasChallengeRecord == \E i \in 1..Len(store0) : store0[i].record = record

\* the value of the first such record in list order
FirstStaleValue ==
    LET idx == { i \in 1..Len(store0) : store0[i].record = record }
        first == CHOOSE i \in idx : \A j \in idx : i <= j
    IN  store0[first].value

\* the existence check was answered
ListAnswered == Len(Calls) >= 1 /\ IsList(Calls[1]) /\ Calls[1].outcome = "ok"

\* deploy_challenge is past its add_record call
PastAdd == pc \in {"settle_added", "poll", "poll_sleep", "done"}

\* the polls that saw the token
Hits == { i \in 1..Len(Polls) : Polls[i].result = "hit" }

\* a destination was replaced: its original is the backup, it holds something else
Replaced(p) == fs0[p] # Absent /\ fs[p] # fs0[p] /\ fs[BakOf(p)] = fs0[p]
SomeFileReplaced == \E p \in OldPaths : Replaced(p)

\* every configured file is there and byte-identical to its new version
AllIdentical ==
    \A x \in Triples :
        /\ fs0[OldFileAt(x[1], x[2], x[3])] # Absent
        /\ fs0[NewFileAt(x[1], x[2], x[3])] # Absent
        /\ fs0[OldFileAt(x[1], x[2], x[3])].content = fs0[NewFileAt(x[1], x[2], x[3])].content

\* every configured action was attempted once, in configured order
AllActionsRan ==
    /\ Len(actionLog) = Len(Config.post_actions)
    /\ \A i \in 1..Len(actionLog) : actionLog[i].action = Config.post_actions[i]

InDeployFile == pc \in {"rename", "copy", "chown", "chmod", "deploy_returned"}

\* C1: whenever deploy_domain exits fatally because a new or an existing file
\* of the domain is missing, the filesystem is the one the deploy_domain call
\* started with (no file of the domain was renamed, copied, chowned, chmodded).
C1_NoMutationWhenFileMissing ==
    pc = "fatal" => fs = domFs

\* C2 (as claimed): when the poll loop exits, the token was seen in exactly 3
\* polls and no poll between them was answered without the token.
C2_ThreeConsecutiveHits ==
    (op = "deploy_challenge" /\ pc = "done") =>
        /\ Cardinality(Hits) = 3
        /\ \A i \in Hits, k \in Hits :
             \A j \in (i + 1)..(k - 1) : Polls[j].result # "miss"

\* C2 (amended): the counter is the number of polls of this run that saw the
\* token, whatever came between them; the loop goes on while it is below 3
\* and exits in the poll that is the third sighting.
C2_ThreeHitsAnyOrder ==
    /\ DNS_COUNTER = Cardinality(Hits)
    /\ pc \in {"poll", "poll_sleep"} => Cardinality(Hits) < 3
    /\ (op = "deploy_challenge" /\ pc = "done") =>
         /\ Cardinality(Hits) = 3
         /\ Polls[Len(Polls)].result = "hit"

\* the loop has exited although a miss and a resolver failure lie between sightings
C2_Witness ==
    /\ op = "deploy_challenge" /\ pc = "done"
    /\ \E i \in Hits, k \in Hits :
         /\ \E j \in (i + 1)..(k - 1) : Polls[j].result = "miss"
         /\ \E j \in (i + 1)..(k - 1) : Polls[j].result = "fail"

C4_AddOnlyWhenAbsent ==
    (op = "deploy_challenge" /\ ListAnswered /\ ~HasChallengeRecord) =>
        /\ Len(Calls) <= 2
        /\ \A i \in 1..Len(Calls) : ~IsRemove(Calls[i])
        /\ Len(Calls) = 2 =>
             /\ IsAdd(Calls[2])
             /\ Calls[2].req.record = record
             /\ Calls[2].req.type = "TXT"
             /\ Calls[2].req.value = token
        /\ PastAdd => Len(Calls) = 2 /\ Calls[2].outcome = "ok"

\* deploy_challenge has returned from its poll loop, no record having existed
C4_Witness ==
    /\ op = "deploy_challenge" /\ pc = "done"
    /\ ~HasChallengeRecord /\ store0 # <<>>
    /\ Len(Polls) > 3

\* C5: clean_challenge, when no record of the challenge name exists, sends
\* the list request and nothing else, and the record store stays as it was.
C5_CleanNoOp ==
    (op = "clean_challenge" /\ ~HasChallengeRecord) =>
        /\ Len(Calls) <= 1
        /\ \A i \in 1..Len(Calls) : IsList(Calls[i])
        /\ store = store0
        /\ ListAnswered => pc = "done"

\* clean_challenge has returned, the store holding only other records
C5_Witness ==
    /\ op = "clean_challenge" /\ pc = "done"
    /\ ~HasChallengeRecord /\ store0 # <<>>
    /\ ListAnswered

\* C6: a post-deployment action has run only if a destination was replaced;
\* when every file is byte-identical to its new version none runs.
C6_ActionsOnlyAfterChange ==
    /\ actionLog # <<>> => SomeFileReplaced
    /\ AllIdentical => actionLog = <<>>

\* the actions have run after exactly one file of the run was replaced
C6_Witness ==
    /\ pc = "done" /\ actionLog # <<>>
    /\ Cardinality({ p \in OldPaths : Replaced(p) }) = 1

\* C7 (as claimed): when the process has ended and a domain had seen a real
\* change, every configured action has been executed in order.
C7_ActionsWheneverChanged ==
    (Ended /\ saw_new_deployments) => AllActionsRan

\* C7 (amended): when run_deployment gets through its domain loop, no file
\* of any domain missing, and a file was replaced, every configured action
\* has been executed in order when the process ends; a fatal exit for a
\* missing file ends the process with no action run.
C7_ActionsAfterCompleteLoop ==
    /\ (op = "deploy_cert" /\ pc = "done" /\ SomeFileReplaced) => AllActionsRan
    /\ pc = "fatal" => actionLog = <<>>

\* the run has ended normally, only the first domain having changed
C7_Witness ==
    /\ op = "deploy_cert" /\ pc = "done"
    /\ Replaced(OldFileAt(1, 1, 1))
    /\ ~Replaced(OldFileAt(2, 1, 1)) /\ ~Replaced(OldFileAt(2, 2, 1))
    /\ AllActionsRan

\* C8: when deploy_file returns for a pair whose contents differ, it returns
\* True, the backup is the original file (content, owner, group, mode), the
\* destination holds the new content and the original owner, group and mode.
C8_DifferingPairDeployed ==
    (pc = "deploy_returned" /\ callFs[old_file].content # callFs[new_file].content) =>
        /\ deploy_success
        /\ fs[BakOf(old_file)] = callFs[old_file]
        /\ fs[old_file] # Absent
        /\ fs[old_file].content = callFs[new_file].content
        /\ fs[old_file].uid = callFs[old_file].uid
        /\ fs[old_file].gid = callFs[old_file].gid
        /\ fs[old_file].mode = callFs[old_file].mode

\* What deploy_file does guarantee: for a pair that filecmp.cmp reports as
\* different, it returns True with the backup, the content and the metadata
\* as C8 describes them.
DeployFileWhenCmpDiffers ==
    (pc = "deploy_returned" /\ ~filecmp(callFs[old_file], callFs[new_file])) =>
        /\ deploy_success
        /\ fs[BakOf(old_file)] = callFs[old_file]
        /\ fs[old_file].content = callFs[new_file].content
        /\ fs[old_file].uid = callFs[old_file].uid
        /\ fs[old_file].gid = callFs[old_file].gid
        /\ fs[old_file].mode = callFs[old_file].mode

\* C9: for a byte-identical pair deploy_file takes none of its replacing
\* steps, returns False and leaves the whole filesystem (both files, their
\* owner, group and mode, an existing backup) as it was at the call.
C9_IdenticalPairUntouched ==
    (InDeployFile /\ callFs[old_file].content = callFs[new_file].content) =>
        /\ pc = "deploy_returned"
        /\ ~deploy_success
        /\ fs = callFs

\* deploy_file has returned for an identical pair of different modification
\* times whose destination has a backup from an earlier run
C9_Witness ==
    /\ pc = "deploy_returned"
    /\ callFs[old_file].content = callFs[new_file].content
    /\ callFs[old_file].mtime # callFs[new_file].mtime
    /\ callFs[BakOf(old_file)] # Absent

\* C10: once the post-deployment actions have started, the process is in the
\* action loop or has ended normally, the actions attempted so far are the
\* configured ones in order, once each, and at the end all were attempted.
C10_EveryActionAttempted ==
    ai >= 1 =>
        /\ pc \in {"action", "done"}
        /\ Len(actionLog) = ai - 1
        /\ Len(actionLog) <= Len(Config.post_actions)
        /\ \A i \in 1..Len(actionLog) : actionLog[i].action = Config.post_actions[i]
        /\ pc = "done" => AllActionsRan

\* the run has ended normally after a failed launch and a non-zero exit status
C10_Witness ==
    /\ pc = "done" /\ Len(actionLog) = 2
    /\ actionLog[1].outcome = "OSError"
    /\ actionLog[2].outcome = "status 1"

\* C11: a provider request that fails (no response, or a malformed one) is
\* the last thing the invocation does: the process has ended with the
\* exception, and no request, sleep or poll follows the failed request.
C11_FailedCallEndsInvocation ==
    \A i \in 1..Len(events) :
        (events[i].kind = "call" /\ events[i].outcome = "failed") =>
            /\ i = Len(events)
            /\ pc = "crashed"

\* deploy_challenge has ended on a failed add that followed a remove
C11_Witness ==
    /\ op = "deploy_challenge" /\ pc = "crashed"
    /\ Len(Calls) = 3
    /\ IsRemove(Calls[2]) /\ Calls[2].outcome = "ok"
    /\ IsAdd(Calls[3]) /\ Calls[3].outcome = "failed"
    /\ Polls = <<>>

\* the poll taken by this step, if the step is a poll
PolledNow == Len(Polls') = Len(Polls) + 1
LastPoll  == Polls[Len(Polls)]

\* C12: a poll in which the resolver fails leaves the hit counter as it was
\* and takes the loop to its sleep, never to the end of the process; and the
\* sleep of the loop leads to nothing but the next poll.
C12_ResolverFailureAbsorbed ==
    [][ /\ (PolledNow /\ LastPoll'.result = "fail") =>
             /\ DNS_COUNTER' = DNS_COUNTER
             /\ pc' = "poll_sleep"
        /\ pc = "poll_sleep" => pc' = "poll" ]_vars

\* the loop has counted a sighting, failed twice, and polls again
C12_Witness ==
    /\ pc = "poll" /\ DNS_COUNTER = 1
    /\ Len(Polls) = 3
    /\ Polls[1].result = "hit" /\ Polls[2].result = "fail" /\ Polls[3].result = "fail"

\* nothing outside the process was touched: no provider request, no resolver
\* query, no sleep, and the filesystem and the record store are as they were
NothingDone == events = <<>> /\ fs = fs0 /\ store = store0

\* C13: an operation name outside the fixed set ends the process with the
\* lookup error before anything is done; startup_hook and exit_hook return
\* with nothing done.
C13_Dispatch ==
    /\ op \notin {"deploy_challenge", "clean_challenge", "deploy_cert", "unchanged_cert",
                  "invalid_challenge", "startup_hook", "exit_hook"} =>
         /\ pc \in {"run_hook", "crashed"}
         /\ NothingDone
    /\ op \in {"startup_hook", "exit_hook"} =>
         /\ pc \in {"run_hook", "done"}
         /\ NothingDone

\* an unknown operation name has ended the process
C13_Witness ==
    /\ op = "bogus_hook" /\ pc = "crashed"
    /\ NothingDone

\* the records of the challenge name in a record store
ChallengeRecords(st) == SelectSeq(st, LAMBDA r : r.record = record)

AllCallsOk == \A i \in 1..Len(Calls) : Calls[i].outcome = "ok"

\* C14: starting with at most one record of the challenge name, and every
\* provider request succeeding, the store holds at most one record of that
\* name after every request of deploy_challenge and clean_challenge, and
\* after the add of deploy_challenge exactly one, whose value is the token.
C14_SingleValued ==
    (Len(ChallengeRecords(store0)) <= 1 /\ AllCallsOk) =>
        /\ Len(ChallengeRecords(store)) <= 1
        /\ (op = "deploy_challenge" /\ PastAdd) =>
             ChallengeRecords(store) = <<Rec(record, token)>>

\* deploy_challenge has replaced a record of another value, a record of
\* another name being kept
C14_Witness ==
    /\ op = "deploy_challenge" /\ PastAdd /\ AllCallsOk
    /\ Len(store0) = 2
    /\ Len(ChallengeRecords(store0)) = 1
    /\ FirstStaleValue # token
    /\ Len(store) = 2

\* C15: deploy_file is entered for the item the loops are at only with both
\* its new file and its destination present, as found by the two checks just
\* before; when one of them is absent the process has exited fatally with
\* that item's destination and backup untouched by this deploy_domain call.
C15_DeployOnlyWhenBothPresent ==
    /\ pc = "deploy_file" =>
         /\ fs[new_file] # Absent
         /\ fs[old_file] # Absent
    /\ InDeployFile =>
         /\ callFs[new_file] # Absent
         /\ callFs[old_file] # Absent
    /\ (pc = "fatal" /\ di >= 1) =>
         /\ fs[new_file] = Absent \/ fs[old_file] = Absent
         /\ fs[old_file] = domFs[old_file]
         /\ fs[BakOf(old_file)] = domFs[BakOf(old_file)]

\* deploy_file is entered for the second location of the second domain
C15_Witness ==
    /\ pc = "deploy_file"
    /\ di = 2 /\ li = 2
    /\ fs[new_file] # Absent /\ fs[old_file] # Absent

\* C16: deploy_challenge returns only with the hit counter at 3; once in its
\* poll loop it does return, the resolver confirming the token again and
\* again; and from its start it returns or ends on a failed provider request.
C16_ReturnsAtThreshold ==
    /\ []((op = "deploy_challenge" /\ pc = "done") => DNS_COUNTER = 3)
    /\ []((op = "deploy_challenge" /\ pc \in {"poll", "poll_sleep"}) => DNS_COUNTER < 3)
    /\ (op = "deploy_challenge" /\ pc = "poll") ~> (pc = "done")
    /\ (op = "deploy_challenge") ~> (pc \in {"done", "crashed"})

\* deploy_challenge has returned
C16_Witness ==
    /\ op = "deploy_challenge" /\ pc = "done"
    /\ DNS_COUNTER = 3
    /\ AllCallsOk

\* C17: in clean_challenge, once the existence check has found a record of
\* the challenge name, what follows is the 30 s sleep and then one remove of
\* that name with the found value, nothing else, and never an add.
C17_CleanRemovesAfterWait ==
    (op = "clean_challenge" /\ ListAnswered /\ HasChallengeRecord) =>
        /\ Len(events) <= 3
        /\ \A i \in 1..Len(Calls) : ~IsAdd(Calls[i])
        /\ Len(events) >= 2 => events[2] = Sleep(30)
        /\ Len(events) = 3 =>
             /\ events[3].kind = "call"
             /\ IsRemove(events[3])
             /\ events[3].req.record = record
             /\ events[3].req.type = "TXT"
             /\ events[3].req.value = FirstStaleValue
        /\ pc = "remove_record" => Len(events) = 2
        /\ pc = "done" => Len(events) = 3 /\ events[3].outcome = "ok"

\* clean_challenge has returned after removing the first of two records
C17_Witness ==
    /\ op = "clean_challenge" /\ pc = "done"
    /\ Len(ChallengeRecords(store0)) = 2
    /\ Len(ChallengeRecords(store)) = 1
    /\ Len(Calls) = 2

\* C18: the hit counter starts at 0 and stays within 0..3; a step changes it
\* only by +1 and only as a poll that saw the token; the poll that raises it
\* to 3 is the one that ends the loop, and the loop ends in no other poll.
C18_CounterDiscipline ==
    /\ DNS_COUNTER = 0
    /\ [](DNS_COUNTER \in 0..3)
    /\ [][ /\ DNS_COUNTER' >= DNS_COUNTER
           /\ DNS_COUNTER' # DNS_COUNTER =>
                /\ DNS_COUNTER' = DNS_COUNTER + 1
                /\ PolledNow
                /\ LastPoll'.result = "hit"
           /\ (PolledNow /\ LastPoll'.result = "hit") => DNS_COUNTER' = DNS_COUNTER + 1
           /\ (PolledNow /\ DNS_COUNTER' = 3) => pc' = "done"
           /\ (pc = "poll" /\ pc' = "done") => (DNS_COUNTER = 2 /\ DNS_COUNTER' = 3)
         ]_vars

\* the loop has ended with the counter at 3 after five polls
C18_Witness ==
    /\ op = "deploy_challenge" /\ pc = "done"
    /\ DNS_COUNTER = 3
    /\ Len(Polls) = 5

\* C19: at every step of the run, whether the process goes on or stops there,
\* each destination that was deployed when the run started is still there
\* unmodified (content, owner, group, mode), at its path or at <path>.bak.
C19_RollbackPossible ==
    \A p \in OldPaths :
        fs0[p] # Absent => (fs[p] = fs0[p] \/ fs[BakOf(p)] = fs0[p])

\* the process has stopped between the rename and the copy of the second
\* file of a domain, the first one replaced: both originals are backups
C19_Witness ==
    /\ pc = "crashed"
    /\ di = 1 /\ ti = 2
    /\ fs[old_file] = Absent
    /\ fs[BakOf(old_file)] = fs0[old_file]
    /\ Replaced(OldFileAt(1, 1, 1))

\* C20: every request of an invocation carries the parameters of the
\* operation that issues it: the list request its cmd and no record, type or
\* value; the remove request the challenge name, TXT and the found value;
\* the add request the challenge name, TXT and the token.
C20_RequestParameters ==
    \A i \in 1..Len(Calls) :
        LET req == Calls[i].req
        IN  /\ req.key = InitialParams.key /\ req.format = InitialParams.format
            /\ req.cmd \in {"dns-list_records", "dns-remove_record", "dns-add_record"}
            /\ IsList(Calls[i]) =>
                 req.record = None /\ req.type = None /\ req.value = None
            /\ IsRemove(Calls[i]) =>
                 req.record = record /\ req.type = "TXT" /\ req.value = FirstStaleValue
            /\ IsAdd(Calls[i]) =>
                 req.record = record /\ req.type = "TXT" /\ req.value = token

\* the add of deploy_challenge was sent after the remove of another value
C20_Witness ==
    /\ op = "deploy_challenge"
    /\ Len(Calls) = 3
    /\ IsRemove(Calls[2]) /\ IsAdd(Calls[3])
    /\ Calls[2].req.value # Calls[3].req.value
    /\ HOST_API_PARAMS = Calls[3].req

=============================================================================
